---- MODULE Spec2Model ----
(***************************************************************************)
(* Model of the sales-ledger line parser of src/app.py (process_pdf and    *)
(* its helpers) and of the forward-fill pass shared with src/app_merge.py. *)
(*                                                                         *)
(* Encoding.  A Python str is a sequence of one-character strings, so that *)
(* strip/split/replace/upper/"in" and the regular expressions are computed *)
(* character by character.  A Python float is a fixed-point integer in     *)
(* hundredths (50.5 is 5050); the tokens of the model carry at most two    *)
(* decimals.  None and the empty string are both the empty sequence (the   *)
(* code only ever tests them with "not x").  The Free column is <<>> for   *)
(* the empty string and <<n>> for the integer n.                           *)
(***************************************************************************)
EXTENDS Integers, Sequences, FiniteSets, TLC

VARIABLES pc, page_num, first_line_found, extracted_title,
          current_party, current_station, all_rows, df,
          n_lines, last, hdr, row_hdr,
          file_num, all_dfs, final_df, docs,
          rows_by_y, page_lines, words

\* The files loop of src/app_merge.py; docs is a ghost variable.
merge_vars == <<file_num, all_dfs, final_df, docs>>

\* The words of one page on their way to visual lines; words is a ghost
\* variable.
page_vars == <<rows_by_y, page_lines, words>>

vars == <<pc, page_num, first_line_found, extracted_title,
          current_party, current_station, all_rows, df,
          n_lines, last, hdr, row_hdr, merge_vars, page_vars>>

\* LET x == v IN F(x), with v computed once.
LetIn(v, F(_)) == [x \in {v} |-> F(x)][v]

(***************************************************************************)
(* Python str primitives.                                                  *)
(***************************************************************************)
LowerLetters == <<"a","b","c","d","e","f","g","h","i","j","k","l","m",
                  "n","o","p","q","r","s","t","u","v","w","x","y","z">>

UpperLetters == <<"A","B","C","D","E","F","G","H","I","J","K","L","M",
                  "N","O","P","Q","R","S","T","U","V","W","X","Y","Z">>

DigitChars == <<"0","1","2","3","4","5","6","7","8","9">>

Digits == {DigitChars[i] : i \in 1..Len(DigitChars)}

Letters == {LowerLetters[i] : i \in 1..Len(LowerLetters)}
           \cup {UpperLetters[i] : i \in 1..Len(UpperLetters)}

Whitespace == {" ", "\t", "\n"}

\* The index of c in seq at or after i, 0 when there is none.
RECURSIVE index_of(_, _, _)
index_of(seq, c, i) ==
    IF i > Len(seq) THEN 0
    ELSE IF seq[i] = c THEN i
    ELSE index_of(seq, c, i + 1)

upper_char(c) ==
    IF index_of(LowerLetters, c, 1) # 0
    THEN UpperLetters[index_of(LowerLetters, c, 1)] ELSE c

lower_char(c) ==
    IF index_of(UpperLetters, c, 1) # 0
    THEN LowerLetters[index_of(UpperLetters, c, 1)] ELSE c

RECURSIVE upper(_)
upper(s) == IF s = <<>> THEN <<>> ELSE <<upper_char(Head(s))>> \o upper(Tail(s))

RECURSIVE lower(_)
lower(s) == IF s = <<>> THEN <<>> ELSE <<lower_char(Head(s))>> \o lower(Tail(s))

RECURSIVE lstrip(_, _)
lstrip(s, chars) ==
    IF s # <<>> /\ Head(s) \in chars THEN lstrip(Tail(s), chars) ELSE s

RECURSIVE rstrip(_, _)
rstrip(s, chars) ==
    IF s # <<>> /\ s[Len(s)] \in chars
    THEN rstrip(SubSeq(s, 1, Len(s) - 1), chars) ELSE s

strip(s) == rstrip(lstrip(s, Whitespace), Whitespace)

remove_char(s, c) == SelectSeq(s, LAMBDA x : x # c)

\* str.find from index i: the first index at which sub occurs, 0 when none.
RECURSIVE find(_, _, _)
find(s, sub, i) ==
    IF i + Len(sub) - 1 > Len(s) THEN 0
    ELSE IF SubSeq(s, i, i + Len(sub) - 1) = sub THEN i
    ELSE find(s, sub, i + 1)

contains(s, sub) == find(s, sub, 1) # 0

RECURSIVE split(_, _)
split(s, sep) ==
    LetIn(find(s, sep, 1), LAMBDA i :
        IF i = 0 THEN <<s>>
        ELSE <<SubSeq(s, 1, i - 1)>>
             \o split(SubSeq(s, i + Len(sep), Len(s)), sep))

RECURSIVE join(_, _)
join(parts, sep) ==
    IF parts = <<>> THEN <<>>
    ELSE IF Len(parts) = 1 THEN parts[1]
    ELSE parts[1] \o sep \o join(Tail(parts), sep)

has_alpha(s) == \E i \in 1..Len(s) : s[i] \in Letters

(***************************************************************************)
(* float(): the grammar for strings without letters (an optional sign,     *)
(* digits with at most one point, at least one digit, surrounding          *)
(* whitespace ignored).  Line 114 rejects every string with a letter       *)
(* before line 116 calls float(), and parse_number is only applied to      *)
(* tokens is_numeric_item accepted, so exponents, "inf" and "nan" never    *)
(* reach float().                                                          *)
(***************************************************************************)
float_body(s) ==
    LetIn(strip(s), LAMBDA t :
        IF t # <<>> /\ Head(t) \in {"+", "-"} THEN Tail(t) ELSE t)

float_ok(s) ==
    LetIn(float_body(s), LAMBDA u :
        /\ \A i \in 1..Len(u) : u[i] \in Digits \cup {"."}
        /\ Cardinality({i \in 1..Len(u) : u[i] = "."}) <= 1
        /\ \E i \in 1..Len(u) : u[i] \in Digits)

RECURSIVE digits_value(_)
digits_value(s) ==
    IF s = <<>> THEN 0
    ELSE 10 * digits_value(SubSeq(s, 1, Len(s) - 1))
         + (index_of(DigitChars, s[Len(s)], 1) - 1)

float_magnitude(u) ==
    LetIn(IF index_of(u, ".", 1) = 0 THEN Len(u) + 1 ELSE index_of(u, ".", 1),
          LAMBDA p :
              100 * digits_value(SubSeq(u, 1, p - 1))
              + digits_value(SubSeq(SubSeq(u, p + 1, Len(u)) \o <<"0", "0">>, 1, 2)))

float_value(s) ==
    LetIn(strip(s), LAMBDA t :
        IF t # <<>> /\ Head(t) = "-"
        THEN 0 - float_magnitude(Tail(t))
        ELSE float_magnitude(float_body(t)))

(***************************************************************************)
(* Helper functions of src/app.py.                                         *)
(***************************************************************************)
clean_number_str(s) ==
    IF s = <<>> THEN <<>>
    ELSE strip(remove_char(remove_char(s, ","), "-"))

parse_number(s) ==
    LetIn(remove_char(clean_number_str(s), "%"), LAMBDA clean :
        IF float_ok(clean) THEN float_value(clean) ELSE 0)

is_numeric_item(s) ==
    IF s = <<>> THEN FALSE
    ELSE LetIn(clean_number_str(s), LAMBDA clean :
             IF clean = <<>> \/ Len(clean) > 15 THEN FALSE
             ELSE IF has_alpha(clean) THEN FALSE
             ELSE float_ok(clean))

(***************************************************************************)
(* PRODUCT_MAPPING (lines 20-84), cut down to the entry of line 28, and    *)
(* the flattening loop of lines 87-93: the assignments in program order,   *)
(* a later assignment to a key overriding an earlier one.                  *)
(***************************************************************************)
PRODUCT_MAPPING ==
    << [standard_name |->
            <<"A","L","P","H","A","L","A","C","T","-","1"," ","2","0","0","G","M">>,
        variations |->
            << <<"A","L","P","H","A","L","A","C","T","-","1","2","0","0","G","M">>,
               <<"A","l","p","h","a","l","a","c","t","-","1"," ","2","0","0","g","m">> >>] >>

RECURSIVE flatten_variations(_, _)
flatten_variations(variations, standard_name) ==
    IF variations = <<>> THEN <<>>
    ELSE << <<Head(variations), standard_name>>,
            <<upper(Head(variations)), standard_name>> >>
         \o flatten_variations(Tail(variations), standard_name)

RECURSIVE flatten_mapping(_)
flatten_mapping(mapping) ==
    IF mapping = <<>> THEN <<>>
    ELSE LET e == Head(mapping)
         IN  << <<e.standard_name, e.standard_name>>,
                <<upper(e.standard_name), e.standard_name>> >>
             \o flatten_variations(e.variations, e.standard_name)
             \o flatten_mapping(Tail(mapping))

FLATTENED_MAPPING == flatten_mapping(PRODUCT_MAPPING)

\* FLATTENED_MAPPING.get(key): the value last assigned to key, None (the empty
\* sequence) when key is absent.
RECURSIVE lookup(_, _, _)
lookup(pairs, key, i) ==
    IF i = 0 THEN <<>>
    ELSE IF pairs[i][1] = key THEN pairs[i][2]
    ELSE lookup(pairs, key, i - 1)

mapping_get(key) == lookup(FLATTENED_MAPPING, key, Len(FLATTENED_MAPPING))

(***************************************************************************)
(* The words of the visual lines the model feeds to process_pdf.  A word   *)
(* of page.extract_words is not empty and holds no whitespace.             *)
(***************************************************************************)
(***************************************************************************)
(* Visual lines: the words of one y-bucket in ascending x0 (line 150).     *)
(***************************************************************************)
word ==
    [ACME |-> <<"A","C","M","E">>,
     PHARMA |-> <<"P","H","A","R","M","A">>,
     PHARMACY |-> <<"P","H","A","R","M","A","C","Y">>,
     dash |-> <<"-">>,
     PUNE |-> <<"P","U","N","E">>,
     AB_CD |-> <<"A","B","-","C","D">>,
     BETA |-> <<"B","E","T","A">>,
     INV |-> <<"I","N","V">>,
     dash3 |-> <<"-","-","-">>,
     dash2 |-> <<"-","-">>,
     PARA |-> <<"P","A","R","A">>,
     MG500 |-> <<"5","0","0","M","G">>,
     XYZ |-> <<"X","Y","Z">>,
     AB |-> <<"A","B">>,
     Grand |-> <<"G","r","a","n","d">>,
     Total |-> <<"T","o","t","a","l">>,
     Page |-> <<"P","a","g","e">>,
     No |-> <<"N","o">>,
     DESCRIPTION |-> <<"D","E","S","C","R","I","P","T","I","O","N">>,
     VEDIKA |-> <<"V","E","D","I","K","A">>,
     alphalact_1 |-> <<"a","l","p","h","a","l","a","c","t","-","1">>,
     Alphalact_1 |-> <<"A","l","p","h","a","l","a","c","t","-","1">>,
     gm200 |-> <<"2","0","0","g","m">>,
     n1 |-> <<"1">>,
     n2 |-> <<"2">>,
     n5 |-> <<"5">>,
     n7 |-> <<"7">>,
     n8 |-> <<"8">>,
     n10 |-> <<"1","0">>,
     n12 |-> <<"1","2">>,
     n15 |-> <<"1","5">>,
     n96 |-> <<"9","6">>,
     n120 |-> <<"1","2","0">>,
     n505 |-> <<"5","0","5">>,
     n3000 |-> <<"3","0","0","0">>,
     n45000 |-> <<"4","5","0","0","0">>,
     n8_0 |-> <<"8",".","0">>,
     n50_5 |-> <<"5","0",".","5">>,
     n2_5 |-> <<"2",".","5">>,
     n1c200 |-> <<"1",",","2","0","0">>,
     n5pct |-> <<"5","%">>,
     z2000 |-> <<"0","0","0","0","0","0","0","0","0","0","0","0","2","0","0","0">>,
     z12 |-> <<"0","0","0","0","0","0","0","0","0","0","0","0","0","1","2">>]

ln_short == <<word.AB>>

ln_total == <<word.Grand, word.Total, word.n10, word.n2, word.n5>>

ln_pageno == <<word.Page, word.No, word.n1>>

ln_descr == <<word.DESCRIPTION, word.n10, word.n2, word.n5>>

ln_vedika == <<word.VEDIKA, word.PHARMACY>>

ln_acme == <<word.ACME, word.PHARMA, word.dash, word.PUNE>>

ln_abcd == <<word.AB_CD, word.PHARMA>>

ln_abcd_pune == <<word.AB_CD, word.PHARMA, word.dash, word.PUNE>>

ln_beta == <<word.BETA>>

ln_inv == <<word.INV, word.n12, word.dash, word.n5>>

ln_dashes == <<word.dash3>>

ln_station_only == <<word.dash, word.PUNE>>

ln_n5 == <<word.PARA, word.MG500, word.n10, word.n2, word.n50_5, word.n505, word.n5>>

ln_n4 == <<word.PARA, word.MG500, word.n10, word.n50_5, word.n505, word.n5>>

ln_n3 == <<word.PARA, word.MG500, word.n50_5, word.n505, word.n5>>

ln_n6 == <<word.PARA, word.n7, word.n10, word.n2, word.n50_5, word.n505, word.n5>>

ln_dash_free == <<word.PARA, word.n10, word.dash, word.n50_5, word.n505, word.n5>>

ln_commas == <<word.PARA, word.MG500, word.n1c200, word.n2_5, word.n50_5, word.n505, word.n5>>

ln_len15 == <<word.PARA, word.z12, word.n50_5, word.n505, word.n5>>

ln_low_mid == <<word.n10, word.PARA, word.n2, word.n5>>

ln_pct == <<word.PARA, word.n10, word.n2, word.n50_5, word.n505, word.n5pct>>

ln_fix_zero == <<word.PARA, word.n12, word.dash2, word.n8_0, word.n96, word.n5>>

ln_fix_dash == <<word.PARA, word.dash, word.n12, word.dash2, word.n8_0, word.n96, word.n5>>

ln_fix_small == <<word.PARA, word.n2, word.dash2, word.n15, word.n50_5, word.n505, word.n5>>

ln_fix_ge_rate == <<word.PARA, word.n12, word.dash2, word.n15, word.n8_0, word.n120, word.n5>>

ln_fix_eq_rate == <<word.PARA, word.n8, word.dash2, word.n15, word.n8_0, word.n120, word.n5>>

ln_fix_big == <<word.PARA, word.z2000, word.n15, word.n8_0, word.n120, word.n5>>

ln_fix_big_rate == <<word.PARA, word.z2000, word.n15, word.n3000, word.n45000, word.n5>>

ln_fix_big_zero == <<word.PARA, word.z2000, word.n8_0, word.n96, word.n5>>

ln_inline_lower == <<word.XYZ, word.dash, word.alphalact_1, word.gm200, word.n10, word.n2, word.n50_5, word.n505, word.n5>>

ln_inline_exact == <<word.XYZ, word.dash, word.Alphalact_1, word.gm200, word.n10, word.n2, word.n50_5, word.n505, word.n5>>

ln_inline_plain == <<word.XYZ, word.dash, word.PARA, word.MG500, word.n10, word.n2, word.n50_5, word.n505, word.n5>>

ln_map_exact == <<word.Alphalact_1, word.gm200, word.n10, word.n2, word.n50_5, word.n505, word.n5>>

ln_map_upper == <<word.alphalact_1, word.gm200, word.n10, word.n2, word.n50_5, word.n505, word.n5>>

(***************************************************************************)
(* process_pdf, lines 150-258: one visual line.                            *)
(***************************************************************************)
full_text(line_text_parts) == strip(join(line_text_parts, <<" ">>))

\* Lines 159-160: the title is the first line without the characters a file
\* name may not hold.
RECURSIVE newlines_to_spaces(_)
newlines_to_spaces(s) ==
    IF s = <<>> THEN <<>>
    ELSE <<IF Head(s) = "\n" THEN " " ELSE Head(s)>> \o newlines_to_spaces(Tail(s))

clean_title(text) ==
    strip(newlines_to_spaces(SelectSeq(text, LAMBDA c :
        c \notin {"\\", "/", "*", "?", ":", "\"", "<", ">", "|"})))

\* Lines 164-171: the lines dropped before classification.
is_skipped(text) ==
    \/ Len(text) < 3
    \/ contains(lower(text), <<"t","o","t","a","l">>)
    \/ contains(text, <<"P","a","g","e"," ","N","o">>)
    \/ contains(text, <<"V","E","D","I","K","A"," ","P","H","A","R","M","A","C","Y">>)
    \/ contains(text, <<"D","E","S","C","R","I","P","T","I","O","N">>)

\* Line 175.
numeric_count(line_text_parts) ==
    Cardinality({i \in 1..Len(line_text_parts) :
                    is_numeric_item(line_text_parts[i])})

\* is_data_row with the threshold off by one.
is_data_row_gt(line_text_parts) == numeric_count(line_text_parts) > 3

\* Lines 174-178.
is_data_row(line_text_parts) == numeric_count(line_text_parts) >= 3

\* header_split cutting at the first hyphen instead of the last.
header_split_first(text) ==
    LetIn(split(text, <<"-">>), LAMBDA parts :
        IF Len(parts) >= 2
           /\ ~ \E i \in 1..Len(parts) : is_numeric_item(parts[i])
        THEN [party   |-> strip(parts[1]),
              station |-> strip(join(Tail(parts), <<"-">>))]
        ELSE [party |-> text, station |-> <<>>])

\* Lines 181-187: party and station of a header line.
header_split(text) ==
    LetIn(split(text, <<"-">>), LAMBDA parts :
        IF Len(parts) >= 2
           /\ ~ \E i \in 1..Len(parts) : is_numeric_item(parts[i])
        THEN [party   |-> strip(join(SubSeq(parts, 1, Len(parts) - 1), <<"-">>)),
              station |-> strip(parts[Len(parts)])]
        ELSE [party |-> text, station |-> <<>>])

\* Lines 192-203: the right-to-left scan, i running from the last word down.
RECURSIVE scan_words(_, _, _)
scan_words(line_text_parts, i, numeric_block) ==
    IF i = 0
    THEN [numeric_block |-> numeric_block, name_parts |-> <<>>]
    ELSE IF strip(line_text_parts[i]) = <<"-">>
    THEN scan_words(line_text_parts, i - 1, numeric_block)
    ELSE IF is_numeric_item(line_text_parts[i])
    THEN LetIn(<<parse_number(line_text_parts[i])>> \o numeric_block, LAMBDA block :
             scan_words(line_text_parts, i - 1, block))
    ELSE [numeric_block |-> numeric_block,
          name_parts    |-> SubSeq(line_text_parts, 1, i)]

split_line(line_text_parts) ==
    scan_words(line_text_parts, Len(line_text_parts), <<>>)

\* row_fields reading the first five values of a longer block.
row_fields_head(numeric_block) ==
    LetIn(Len(numeric_block), LAMBDA count :
        IF count >= 5
        THEN [ok |-> TRUE,
              qty    |-> numeric_block[1],
              free   |-> <<numeric_block[2] \div 100>>,
              rate   |-> numeric_block[3],
              amount |-> numeric_block[4],
              tax    |-> numeric_block[5]]
        ELSE IF count = 4
        THEN [ok |-> TRUE,
              qty    |-> numeric_block[1],
              free   |-> <<>>,
              rate   |-> numeric_block[2],
              amount |-> numeric_block[3],
              tax    |-> numeric_block[4]]
        ELSE IF count = 3
        THEN [ok |-> TRUE,
              qty    |-> 0,
              free   |-> <<>>,
              rate   |-> numeric_block[1],
              amount |-> numeric_block[2],
              tax    |-> numeric_block[3]]
        ELSE [ok |-> FALSE, qty |-> 0, free |-> <<>>,
              rate |-> 0, amount |-> 0, tax |-> 0])

\* Lines 205-229: the numeric block onto the five fields; ok is FALSE on the
\* "continue" of line 229.  numeric_block[-k] is numeric_block[count + 1 - k].
row_fields(numeric_block) ==
    LetIn(Len(numeric_block), LAMBDA count :
        IF count >= 5
        THEN [ok |-> TRUE,
              qty    |-> numeric_block[count - 4],
              free   |-> <<numeric_block[count - 3] \div 100>>,
              rate   |-> numeric_block[count - 2],
              amount |-> numeric_block[count - 1],
              tax    |-> numeric_block[count]]
        ELSE IF count = 4
        THEN [ok |-> TRUE,
              qty    |-> numeric_block[count - 3],
              free   |-> <<>>,
              rate   |-> numeric_block[count - 2],
              amount |-> numeric_block[count - 1],
              tax    |-> numeric_block[count]]
        ELSE IF count = 3
        THEN [ok |-> TRUE,
              qty    |-> 0,
              free   |-> <<>>,
              rate   |-> numeric_block[1],
              amount |-> numeric_block[count - 1],
              tax    |-> numeric_block[count]]
        ELSE [ok |-> FALSE, qty |-> 0, free |-> <<>>,
              rate |-> 0, amount |-> 0, tax |-> 0])

\* Lines 232-233.
raw_name(name_parts) ==
    rstrip(strip(join(name_parts, <<" ">>)), {" ", "-"})

(***************************************************************************)
(* Line 235: re.search(r'\s(\d+)\s*-?$', name).  The match starts at a     *)
(* whitespace character, takes the whole run of digits after it (a         *)
(* shorter run would leave a digit that \s*-?$ cannot match) and must be   *)
(* followed by whitespace and at most one hyphen up to the end.            *)
(***************************************************************************)
RECURSIVE digits_end(_, _)
digits_end(name, k) ==
    IF k <= Len(name) /\ name[k] \in Digits THEN digits_end(name, k + 1) ELSE k - 1

match_tail_ok(t) ==
    LetIn(IF t # <<>> /\ t[Len(t)] = "-" THEN SubSeq(t, 1, Len(t) - 1) ELSE t,
          LAMBDA u : \A k \in 1..Len(u) : u[k] \in Whitespace)

match_at(name, i) ==
    /\ name[i] \in Whitespace
    /\ digits_end(name, i + 1) > i
    /\ match_tail_ok(SubSeq(name, digits_end(name, i + 1) + 1, Len(name)))

RECURSIVE match_start(_, _)
match_start(name, i) ==
    IF i > Len(name) THEN 0
    ELSE IF match_at(name, i) THEN i
    ELSE match_start(name, i + 1)

\* match is None (found FALSE), or match.start() and match.group(1).
trailing_match(name) ==
    LetIn(match_start(name, 1), LAMBDA i :
        IF i = 0 THEN [found |-> FALSE, start |-> 0, digits |-> <<>>]
        ELSE [found |-> TRUE, start |-> i,
              digits |-> SubSeq(name, i + 1, digits_end(name, i + 1))])

\* apply_trailing with "rate >= trailing_number".
apply_trailing_ge(qty, rate, trailing_number) ==
    qty = 0 \/ (trailing_number < 1000 * 100 /\ rate >= trailing_number)

\* Line 238.
apply_trailing(qty, rate, trailing_number) ==
    qty = 0 \/ (trailing_number < 1000 * 100 /\ rate > trailing_number)

\* Lines 235-241.
correct_name(name, qty, rate) ==
    LetIn(trailing_match(name), LAMBDA match :
        IF match.found /\ apply_trailing(qty, rate, float_value(match.digits))
        THEN [qty  |-> float_value(match.digits),
              name |-> rstrip(strip(SubSeq(name, 1, match.start - 1)), {" ", "-"})]
        ELSE [qty |-> qty, name |-> name])

\* Lines 245-249.
canonical_name(raw_product_name) ==
    IF mapping_get(raw_product_name) # <<>>
    THEN mapping_get(raw_product_name)
    ELSE IF mapping_get(upper(raw_product_name)) # <<>>
    THEN mapping_get(upper(raw_product_name))
    ELSE raw_product_name

\* Lines 253-258.
has_inline_party(raw_product_name) == contains(raw_product_name, <<" ", "-", " ">>)

fallback_party(raw_product_name) ==
    split(raw_product_name, <<" ", "-", " ">>)[1]

extracted_name_part(raw_product_name) ==
    join(Tail(split(raw_product_name, <<" ", "-", " ">>)), <<" ", "-", " ">>)

fallback_name(raw_product_name) ==
    LetIn(extracted_name_part(raw_product_name), LAMBDA part :
        IF mapping_get(part) # <<>> THEN mapping_get(part) ELSE part)

\* Lines 192-258 without the reads of current_party and current_station: the
\* fields, the corrected name, and what lines 245-258 make of it.
row_parts(line_text_parts) ==
    LetIn(split_line(line_text_parts), LAMBDA scan :
    LetIn(row_fields(scan.numeric_block), LAMBDA fields :
    LetIn(raw_name(scan.name_parts), LAMBDA name :
    LetIn(correct_name(name, fields.qty, fields.rate), LAMBDA fixed :
        [ok               |-> fields.ok,
         numeric_block    |-> scan.numeric_block,
         name             |-> name,
         raw_product_name |-> fixed.name,
         qty              |-> fixed.qty,
         free             |-> fields.free,
         rate             |-> fields.rate,
         amount           |-> fields.amount,
         tax              |-> fields.tax,
         final_name       |-> canonical_name(fixed.name),
         inline_party     |-> has_inline_party(fixed.name),
         fallback_party   |-> fallback_party(fixed.name),
         fallback_name    |-> fallback_name(fixed.name)]))))

\* Everything lines 150-258 compute from the words of a line alone.
line_facts(line_text_parts) ==
    LetIn(full_text(line_text_parts), LAMBDA text :
        [text    |-> text,
         title   |-> clean_title(text),
         skipped |-> text = <<>> \/ is_skipped(text),
         data    |-> is_data_row(line_text_parts),
         header  |-> header_split(text),
         row     |-> row_parts(line_text_parts)])

\* Lines 252-269: the dict appended to all_rows and the party after the row.
takes_fallback(party, parts) == party = <<>> /\ parts.inline_party

\* party_after taking the inline party whatever current_party is.
party_after_any(party, parts) ==
    IF parts.inline_party THEN parts.fallback_party ELSE party

party_after(party, parts) ==
    IF takes_fallback(party, parts) THEN parts.fallback_party ELSE party

new_row(party, station, parts) ==
    [party_name   |-> party_after(party, parts),
     station      |-> station,
     product_name |-> IF takes_fallback(party, parts)
                      THEN parts.fallback_name ELSE parts.final_name,
     qty    |-> parts.qty,
     free   |-> parts.free,
     rate   |-> parts.rate,
     amount |-> parts.amount,
     tax    |-> parts.tax]

(***************************************************************************)
(* Lines 272-284 (and src/app_merge.py lines 329-342): the forward fill.   *)
(* NA is pd.NA, a value no str equals.                                     *)
(***************************************************************************)
NA == <<"pd.NA">>

\* dash_pattern = r'^[\s\-]+$'
matches_dash_pattern(s) ==
    s # <<>> /\ \A i \in 1..Len(s) : s[i] \in Whitespace \cup {"-"}

\* replace_value without the dash_pattern replacement of lines 275-276.
replace_value_empty(v) == IF v = <<>> THEN NA ELSE v

\* Lines 275-279 on one value.
replace_value(v) ==
    IF v = <<>> \/ matches_dash_pattern(v) THEN NA ELSE v

\* ffill that keeps the first value it meets instead of the latest.
RECURSIVE ffill_stale(_, _)
ffill_stale(column, carry) ==
    IF column = <<>> THEN <<>>
    ELSE LetIn(IF Head(column) = NA THEN carry ELSE Head(column), LAMBDA v :
             <<v>> \o ffill_stale(Tail(column), IF carry = NA THEN v ELSE carry))

\* ffill that fills nothing.
ffill_none(column, carry) == column

\* Series.ffill: a missing value takes the last value that is not missing.
RECURSIVE ffill(_, _)
ffill(column, carry) ==
    IF column = <<>> THEN <<>>
    ELSE LetIn(IF Head(column) = NA THEN carry ELSE Head(column), LAMBDA v :
             <<v>> \o ffill(Tail(column), v))

\* Line 284.
fillna(v) == IF v = NA THEN <<>> ELSE v

RECURSIVE map_replace(_)
map_replace(column) ==
    IF column = <<>> THEN <<>>
    ELSE <<replace_value(Head(column))>> \o map_replace(Tail(column))

RECURSIVE map_fillna(_)
map_fillna(column) ==
    IF column = <<>> THEN <<>>
    ELSE <<fillna(Head(column))>> \o map_fillna(Tail(column))

filled_column(column) == map_fillna(ffill(map_replace(column), NA))

RECURSIVE party_column(_)
party_column(rows) ==
    IF rows = <<>> THEN <<>>
    ELSE <<Head(rows).party_name>> \o party_column(Tail(rows))

RECURSIVE station_column(_)
station_column(rows) ==
    IF rows = <<>> THEN <<>>
    ELSE <<Head(rows).station>> \o station_column(Tail(rows))

RECURSIVE with_columns(_, _, _)
with_columns(rows, party, station) ==
    IF rows = <<>> THEN <<>>
    ELSE <<[Head(rows) EXCEPT !.party_name = Head(party), !.station = Head(station)]>>
         \o with_columns(Tail(rows), Tail(party), Tail(station))

forward_fill(rows) ==
    with_columns(rows, filled_column(party_column(rows)),
                 filled_column(station_column(rows)))

(***************************************************************************)
(* The state machine.  pc is "lines" inside the loops of lines 137-269 and *)
(* "done" after line 286.  debug_mode has its default, False (line 122).   *)
(* Ghost variables, read by no action of the program:                      *)
(*   n_lines  the number of visual lines read so far;                      *)
(*   last     the kind of the latest visual line, its words, its page, and *)
(*            current_party/current_station as they were before it;        *)
(*   hdr      what the latest header line supplied, and its page;          *)
(*   row_hdr  for each dict of all_rows, hdr and page_num when appended.   *)
(***************************************************************************)
MaxLines == 4

MaxPages == 2

MaxFill == 6

Lines ==
    {ln_short, ln_total, ln_pageno, ln_descr, ln_vedika,
     ln_acme, ln_abcd, ln_abcd_pune, ln_beta, ln_inv, ln_dashes,
     ln_station_only,
     ln_n5, ln_n4, ln_n3, ln_n6, ln_dash_free, ln_commas, ln_len15,
     ln_low_mid, ln_pct,
     ln_fix_zero, ln_fix_dash, ln_fix_small, ln_fix_ge_rate, ln_fix_eq_rate,
     ln_fix_big, ln_fix_big_rate, ln_fix_big_zero,
     ln_inline_lower, ln_inline_exact, ln_inline_plain,
     ln_map_exact, ln_map_upper}

DocLines ==
    {ln_short, ln_acme, ln_beta, ln_dashes, ln_station_only,
     ln_n5, ln_inline_plain, ln_pct}

HeaderLines ==
    {ln_acme, ln_abcd, ln_abcd_pune, ln_beta, ln_inv, ln_dashes, ln_station_only}

\* line_facts of every line of the vocabulary, computed once.
LineTable == [line \in Lines |-> line_facts(line)]

facts(line) == LineTable[line]

\* Line 125.
DefaultTitle ==
    <<"C","o","n","v","e","r","t","e","d","_","S","a","l","e","s","_","D","a","t","a">>

NoHeader == [seen |-> FALSE, party |-> <<>>, station |-> <<>>, page |-> 0]

NoLine == [kind |-> "start", line |-> <<>>, party |-> <<>>, station |-> <<>>, page |-> 0]

\* No file of the files loop is finished; no word of a page is bucketed.
NoMerge ==
    /\ file_num = 1
    /\ all_dfs = <<>>
    /\ final_df = <<>>
    /\ docs = <<>>

NoPage ==
    /\ rows_by_y = <<>>
    /\ page_lines = <<>>
    /\ words = <<>>

\* Lines 123-134.
Init ==
    /\ pc = "lines"
    /\ page_num = 1
    /\ first_line_found = FALSE
    /\ extracted_title = DefaultTitle
    /\ current_party = <<>>
    /\ current_station = <<>>
    /\ all_rows = <<>>
    /\ df = <<>>
    /\ n_lines = 0
    /\ last = NoLine
    /\ hdr = NoHeader
    /\ row_hdr = <<>>
    /\ NoMerge
    /\ NoPage

\* Lines 156-162.
TitleStep(line) ==
    /\ extracted_title' =
           IF facts(line).text # <<>> /\ page_num = 1 /\ ~first_line_found
           THEN facts(line).title ELSE extracted_title
    /\ first_line_found' =
           (first_line_found \/ (facts(line).text # <<>> /\ page_num = 1))

Seen(kind, line) ==
    [kind |-> kind, line |-> line, party |-> current_party,
     station |-> current_station, page |-> page_num]

\* Lines 153, 164-171: a line that is dropped.
SkipLine(line) ==
    /\ pc = "lines"
    /\ n_lines < MaxLines
    /\ facts(line).skipped
    /\ TitleStep(line)
    /\ n_lines' = n_lines + 1
    /\ last' = Seen("noise", line)
    /\ UNCHANGED <<pc, page_num, current_party, current_station, all_rows, df,
                   hdr, row_hdr,
                   merge_vars, page_vars>>

\* Lines 180-189: a header line.
HeaderLine(line) ==
    /\ pc = "lines"
    /\ n_lines < MaxLines
    /\ ~facts(line).skipped
    /\ ~facts(line).data
    /\ TitleStep(line)
    /\ current_party' = facts(line).header.party
    /\ current_station' = facts(line).header.station
    /\ hdr' = [seen |-> TRUE, party |-> facts(line).header.party,
               station |-> facts(line).header.station, page |-> page_num]
    /\ n_lines' = n_lines + 1
    /\ last' = Seen("header", line)
    /\ UNCHANGED <<pc, page_num, all_rows, df, row_hdr,
                   merge_vars, page_vars>>

\* RejectRow taking the line for a header line.
RejectRow_header(line) ==
    /\ pc = "lines"
    /\ n_lines < MaxLines
    /\ ~facts(line).skipped
    /\ facts(line).data
    /\ ~facts(line).row.ok
    /\ TitleStep(line)
    /\ current_party' = facts(line).text
    /\ current_station' = <<>>
    /\ n_lines' = n_lines + 1
    /\ last' = Seen("rejected", line)
    /\ UNCHANGED <<pc, page_num, all_rows, df, hdr, row_hdr,
                   merge_vars, page_vars>>

\* Lines 191-229: a data row with fewer than 3 trailing numbers.
RejectRow(line) ==
    /\ pc = "lines"
    /\ n_lines < MaxLines
    /\ ~facts(line).skipped
    /\ facts(line).data
    /\ ~facts(line).row.ok
    /\ TitleStep(line)
    /\ n_lines' = n_lines + 1
    /\ last' = Seen("rejected", line)
    /\ UNCHANGED <<pc, page_num, current_party, current_station, all_rows, df,
                   hdr, row_hdr,
                   merge_vars, page_vars>>

\* Lines 191-269: a data row that is appended to all_rows.
EmitRow(line) ==
    /\ pc = "lines"
    /\ n_lines < MaxLines
    /\ ~facts(line).skipped
    /\ facts(line).data
    /\ facts(line).row.ok
    /\ TitleStep(line)
    /\ current_party' = party_after(current_party, facts(line).row)
    /\ all_rows' = Append(all_rows,
                          new_row(current_party, current_station, facts(line).row))
    /\ row_hdr' = Append(row_hdr, [hdr |-> hdr, page |-> page_num])
    /\ n_lines' = n_lines + 1
    /\ last' = Seen("emitted", line)
    /\ UNCHANGED <<pc, page_num, current_station, df, hdr,
                   merge_vars, page_vars>>

\* NextPage with current_party and current_station initialised per page.
NextPage_reset ==
    /\ pc = "lines"
    /\ page_num < MaxPages
    /\ page_num' = page_num + 1
    /\ current_party' = <<>>
    /\ current_station' = <<>>
    /\ UNCHANGED <<pc, first_line_found, extracted_title, all_rows, df,
                   n_lines, last, hdr, row_hdr,
                   merge_vars, page_vars>>

\* Line 137: the next page of the document.
NextPage ==
    /\ pc = "lines"
    /\ page_num < MaxPages
    /\ page_num' = page_num + 1
    /\ UNCHANGED <<pc, first_line_found, extracted_title, current_party,
                   current_station, all_rows, df, n_lines, last, hdr, row_hdr,
                   merge_vars, page_vars>>

\* Lines 271-286: the end of the document.
Finish ==
    /\ pc = "lines"
    /\ pc' = "done"
    /\ df' = forward_fill(all_rows)
    /\ UNCHANGED <<page_num, first_line_found, extracted_title, current_party,
                   current_station, all_rows, n_lines, last, hdr, row_hdr,
                   merge_vars, page_vars>>

Next ==
    \/ \E line \in DocLines : SkipLine(line)
    \/ \E line \in DocLines : HeaderLine(line)
    \/ \E line \in DocLines : RejectRow(line)
    \/ \E line \in DocLines : EmitRow(line)
    \/ NextPage
    \/ Finish

Spec == Init /\ [][Next]_vars

(***************************************************************************)
(* SpecLine: one visual line of the whole vocabulary, read at the start of *)
(* a document or right after one of its header lines.                      *)
(***************************************************************************)
InitLine ==
    /\ pc = "lines"
    /\ page_num = 1
    /\ all_rows = <<>>
    /\ df = <<>>
    /\ row_hdr = <<>>
    /\ NoMerge
    /\ NoPage
    /\ \/ /\ first_line_found = FALSE
          /\ extracted_title = DefaultTitle
          /\ current_party = <<>>
          /\ current_station = <<>>
          /\ hdr = NoHeader
          /\ n_lines = 0
       \/ \E h \in HeaderLines :
             /\ first_line_found = TRUE
             /\ extracted_title = facts(h).title
             /\ current_party = facts(h).header.party
             /\ current_station = facts(h).header.station
             /\ hdr = [seen |-> TRUE, party |-> facts(h).header.party,
                       station |-> facts(h).header.station, page |-> 1]
             /\ n_lines = 1
    /\ last = NoLine

NextLine ==
    \/ \E line \in Lines : last = NoLine /\ SkipLine(line)
    \/ \E line \in Lines : last = NoLine /\ HeaderLine(line)
    \/ \E line \in Lines : last = NoLine /\ RejectRow(line)
    \/ \E line \in Lines : last = NoLine /\ EmitRow(line)
    \/ last # NoLine /\ Finish

SpecLine == InitLine /\ [][NextLine]_vars

(***************************************************************************)
(* SpecFill: the forward fill applied to the rows of a finished document.  *)
(* The rows are those ln_n5 gives under the party/station pairs the header *)
(* lines leave; the pair without party and station only occurs before the  *)
(* first header line.                                                      *)
(***************************************************************************)
FillStates ==
    {[party |-> <<>>, station |-> <<>>]} \cup
    {facts(h).header : h \in {ln_acme, ln_beta, ln_dashes, ln_station_only}}

FillRows == {new_row(p.party, p.station, facts(ln_n5).row) : p \in FillStates}

InitFill ==
    /\ pc = "lines"
    /\ page_num = 1
    /\ first_line_found = TRUE
    /\ extracted_title = facts(ln_n5).title
    /\ \E n \in 1..MaxFill : all_rows \in [1..n -> FillRows]
    /\ \A i \in 2..Len(all_rows) :
          (all_rows[i].party_name = <<>> /\ all_rows[i].station = <<>>)
              => (all_rows[i-1].party_name = <<>> /\ all_rows[i-1].station = <<>>)
    /\ current_party = all_rows[Len(all_rows)].party_name
    /\ current_station = all_rows[Len(all_rows)].station
    /\ df = <<>>
    /\ n_lines = Len(all_rows)
    /\ last = [kind |-> "emitted", line |-> ln_n5,
               party |-> all_rows[Len(all_rows)].party_name,
               station |-> all_rows[Len(all_rows)].station, page |-> 1]
    /\ hdr = NoHeader
    /\ row_hdr = <<>>
    /\ NoMerge
    /\ NoPage

NextFill == Finish

SpecFill == InitFill /\ [][NextFill]_vars


(***************************************************************************)
(* SpecMerge: the files loop of src/app_merge.py, lines 322-357.  Its      *)
(* process_pdf is the one of src/app.py up to line 269, with another       *)
(* default title, and returns all_rows; the loop forward-fills the rows of *)
(* each file, puts a title row before them and concatenates the files.     *)
(* pc is "merged" between two files.  The ghost variable docs holds, for   *)
(* each file read, what process_pdf returned and its row_hdr.              *)
(***************************************************************************)
MaxFiles == 2

MergeLines == {ln_short, ln_acme, ln_pct, ln_n5}

\* src/app_merge.py line 126.
MergeDefaultTitle ==
    <<"U","n","k","n","o","w","n"," ","C","o","m","p","a","n","y">>

\* src/app_merge.py lines 345-347.
header_row_data(file_title) ==
    [party_name   |-> <<"C","O","M","P","A","N","Y",":"," ">> \o file_title,
     station      |-> <<>>,
     product_name |-> <<>>,
     qty    |-> <<>>,
     free   |-> <<>>,
     rate   |-> <<>>,
     amount |-> <<>>,
     tax    |-> <<>>]

\* df_combined_file with the forward fill after the title row is put first.
df_combined_file_late(file_title, file_rows) ==
    forward_fill(<<header_row_data(file_title)>> \o file_rows)

\* src/app_merge.py lines 329-350.
df_combined_file(file_title, file_rows) ==
    <<header_row_data(file_title)>> \o forward_fill(file_rows)

\* src/app_merge.py line 357: pd.concat(all_dfs, ignore_index=True).
RECURSIVE concat(_)
concat(dfs) ==
    IF dfs = <<>> THEN <<>> ELSE Head(dfs) \o concat(Tail(dfs))

\* src/app_merge.py lines 123-135, for the first file of line 322.
InitMerge ==
    /\ pc = "lines"
    /\ page_num = 1
    /\ first_line_found = FALSE
    /\ extracted_title = MergeDefaultTitle
    /\ current_party = <<>>
    /\ current_station = <<>>
    /\ all_rows = <<>>
    /\ df = <<>>
    /\ n_lines = 0
    /\ last = NoLine
    /\ hdr = NoHeader
    /\ row_hdr = <<>>
    /\ NoMerge
    /\ NoPage

\* src/app_merge.py lines 272, 325-353: process_pdf returns, the file is
\* filled and put on all_dfs when it has rows.
MergeFile ==
    /\ pc = "lines"
    /\ pc' = "merged"
    /\ all_dfs' = IF all_rows # <<>>
                  THEN Append(all_dfs, df_combined_file(extracted_title, all_rows))
                  ELSE all_dfs
    /\ docs' = Append(docs, [title |-> extracted_title, rows |-> all_rows,
                             row_hdr |-> row_hdr])
    /\ UNCHANGED <<page_num, first_line_found, extracted_title, current_party,
                   current_station, all_rows, df, n_lines, last, hdr, row_hdr,
                   file_num, final_df, page_vars>>

\* NextFile leaving current_party and current_station as the file before
\* left them.
NextFile_keep ==
    /\ pc = "merged"
    /\ file_num < MaxFiles
    /\ pc' = "lines"
    /\ file_num' = file_num + 1
    /\ page_num' = 1
    /\ first_line_found' = FALSE
    /\ extracted_title' = MergeDefaultTitle
    /\ all_rows' = <<>>
    /\ last' = NoLine
    /\ hdr' = NoHeader
    /\ row_hdr' = <<>>
    /\ UNCHANGED <<current_party, current_station, df, n_lines, all_dfs,
                   final_df, docs, page_vars>>

\* src/app_merge.py lines 322-324 and 123-135: process_pdf on the next file.
NextFile ==
    /\ pc = "merged"
    /\ file_num < MaxFiles
    /\ pc' = "lines"
    /\ file_num' = file_num + 1
    /\ page_num' = 1
    /\ first_line_found' = FALSE
    /\ extracted_title' = MergeDefaultTitle
    /\ current_party' = <<>>
    /\ current_station' = <<>>
    /\ all_rows' = <<>>
    /\ last' = NoLine
    /\ hdr' = NoHeader
    /\ row_hdr' = <<>>
    /\ UNCHANGED <<df, n_lines, all_dfs, final_df, docs, page_vars>>

\* src/app_merge.py lines 355-357: the end of the files loop.
Combine ==
    /\ pc = "merged"
    /\ pc' = "done"
    /\ final_df' = concat(all_dfs)
    /\ UNCHANGED <<page_num, first_line_found, extracted_title, current_party,
                   current_station, all_rows, df, n_lines, last, hdr, row_hdr,
                   file_num, all_dfs, docs, page_vars>>

NextMerge ==
    \/ \E line \in MergeLines : SkipLine(line)
    \/ \E line \in MergeLines : HeaderLine(line)
    \/ \E line \in MergeLines : RejectRow(line)
    \/ \E line \in MergeLines : EmitRow(line)
    \/ NextPage
    \/ MergeFile
    \/ NextFile
    \/ Combine

SpecMerge == InitMerge /\ [][NextMerge]_vars

(***************************************************************************)
(* SpecGroup: the words of one page on their way to visual lines, lines    *)
(* 138-150.  A word is a record of its text, x0 and top; top is a float in *)
(* hundredths like every float of the model, and the tops of the model are *)
(* the multiples of 0.5, for which top / 5 is exact in hundredths.  pc is  *)
(* "words" inside the loop of line 141 and "grouped" after line 150.       *)
(***************************************************************************)
MaxWords == 2

MaxTop == 16

Tops == {50 * k : k \in 0..MaxTop}

PageWords ==
    {[text |-> word.PARA, x0 |-> 100, top |-> t] : t \in Tops}
    \cup {[text |-> word.n5, x0 |-> 200, top |-> t] : t \in Tops}

\* round(x) of a float x >= 0 in hundredths: to the nearest integer, a tie
\* to the even one.
round(x) ==
    IF x % 100 < 50 THEN x \div 100
    ELSE IF x % 100 > 50 THEN x \div 100 + 1
    ELSE IF (x \div 100) % 2 = 0 THEN x \div 100
    ELSE x \div 100 + 1

\* Line 142.
y_bucket(top) == round(top \div 5) * 5

\* Lines 143-144: rows[y_bucket].append(word), rows being a dict.
bucket_append(buckets, y, w) ==
    IF y \in DOMAIN buckets
    THEN [buckets EXCEPT ![y] = Append(@, w)]
    ELSE [k \in DOMAIN buckets \cup {y} |->
              IF k = y THEN <<w>> ELSE buckets[k]]

\* Line 146: sorted(rows.keys()).
RECURSIVE sorted_y(_)
sorted_y(keys) ==
    IF keys = {} THEN <<>>
    ELSE LET y == CHOOSE k \in keys : \A other \in keys : k <= other
         IN  <<y>> \o sorted_y(keys \ {y})

\* Line 149: sorted(rows[y], key=lambda w: w['x0']), a stable sort.
RECURSIVE insert_by_x0(_, _)
insert_by_x0(sorted_words, w) ==
    IF sorted_words = <<>> THEN <<w>>
    ELSE IF Head(sorted_words).x0 <= w.x0
    THEN <<Head(sorted_words)>> \o insert_by_x0(Tail(sorted_words), w)
    ELSE <<w>> \o sorted_words

RECURSIVE line_words(_)
line_words(bucket) ==
    IF bucket = <<>> THEN <<>>
    ELSE insert_by_x0(line_words(SubSeq(bucket, 1, Len(bucket) - 1)),
                      bucket[Len(bucket)])

\* Line 150.
line_texts(bucket) ==
    [i \in 1..Len(bucket) |-> line_words(bucket)[i].text]

\* Line 138: the page before its first word.
InitGroup ==
    /\ pc = "words"
    /\ page_num = 1
    /\ first_line_found = FALSE
    /\ extracted_title = DefaultTitle
    /\ current_party = <<>>
    /\ current_station = <<>>
    /\ all_rows = <<>>
    /\ df = <<>>
    /\ n_lines = 0
    /\ last = NoLine
    /\ hdr = NoHeader
    /\ row_hdr = <<>>
    /\ NoMerge
    /\ NoPage

\* Lines 141-144: one word of the page.
BucketWord(w) ==
    /\ pc = "words"
    /\ Len(words) < MaxWords
    /\ rows_by_y' = bucket_append(rows_by_y, y_bucket(w.top), w)
    /\ words' = Append(words, w)
    /\ UNCHANGED <<pc, page_num, first_line_found, extracted_title,
                   current_party, current_station, all_rows, df, n_lines,
                   last, hdr, row_hdr, merge_vars, page_lines>>

\* Lines 146-150: the visual lines of the page, top to bottom.
BuildLines ==
    /\ pc = "words"
    /\ pc' = "grouped"
    /\ page_lines' = [i \in 1..Len(sorted_y(DOMAIN rows_by_y)) |->
                         line_texts(rows_by_y[sorted_y(DOMAIN rows_by_y)[i]])]
    /\ UNCHANGED <<page_num, first_line_found, extracted_title,
                   current_party, current_station, all_rows, df, n_lines,
                   last, hdr, row_hdr, merge_vars, rows_by_y, words>>

NextGroup ==
    \/ \E w \in PageWords : BucketWord(w)
    \/ BuildLines

SpecGroup == InitGroup /\ [][NextGroup]_vars

(***************************************************************************)
(* Properties.  The operators below restate what the specification says in *)
(* terms of the words of a line and of the records; they are not part of   *)
(* the program.                                                            *)
(***************************************************************************)
\* Blank: empty, or only whitespace and hyphens.
IsBlank(s) == \A i \in 1..Len(s) : s[i] \in Whitespace \cup {"-"}

Space == <<" ">>

InlineSep == <<" ", "-", " ">>

\* The last record appended to all_rows.
LastRow == all_rows[Len(all_rows)]

\* The index of the right-most word that is neither numeric nor a bare "-"
\* (0 when there is none): the trailing numeric block lies to its right.
BlockStart(line) ==
    CHOOSE k \in 0..Len(line) :
        /\ \A j \in (k + 1)..Len(line) :
               is_numeric_item(line[j]) \/ strip(line[j]) = <<"-">>
        /\ k > 0 => ~(is_numeric_item(line[k]) \/ strip(line[k]) = <<"-">>)

\* The values of the trailing numeric block, left to right, "-" skipped.
TrailingBlock(line) ==
    LET nums == SelectSeq(SubSeq(line, BlockStart(line) + 1, Len(line)),
                          LAMBDA w : strip(w) # <<"-">>)
    IN  [i \in 1..Len(nums) |-> parse_number(nums[i])]

\* qty as the field mapping leaves it, before the name corrector.
BlockQty(line) ==
    LET b == TrailingBlock(line)
    IN  IF Len(b) >= 5 THEN b[Len(b) - 4]
        ELSE IF Len(b) = 4 THEN b[1]
        ELSE 0

\* The raw name: the words left of the block, joined and trimmed of spaces
\* and hyphens.
TrimmedName(line) ==
    rstrip(strip(join(SubSeq(line, 1, BlockStart(line)), Space)), {" ", "-"})

\* The name without one optional final hyphen.
BeforeHyphen(name) ==
    IF name # <<>> /\ name[Len(name)] = "-"
    THEN SubSeq(name, 1, Len(name) - 1) ELSE name

\* The number of digits that end s.
DigitRun(s) ==
    CHOOSE k \in 0..Len(s) :
        /\ \A j \in (Len(s) - k + 1)..Len(s) : s[j] \in Digits
        /\ k < Len(s) => s[Len(s) - k] \notin Digits

\* The name ends with whitespace, one or more digits and an optional hyphen.
HasNumberSuffix(name) ==
    LET s == BeforeHyphen(name)
        k == DigitRun(s)
    IN  k >= 1 /\ k < Len(s) /\ s[Len(s) - k] \in Whitespace

SuffixDigits(name) ==
    LET s == BeforeHyphen(name)
    IN  SubSeq(s, Len(s) - DigitRun(s) + 1, Len(s))

BeforeSuffix(name) ==
    LET s == BeforeHyphen(name)
    IN  SubSeq(s, 1, Len(s) - DigitRun(s) - 1)

\* The value a blank entry of a column takes from the entries before it.
NearestValue(column, i) ==
    IF ~IsBlank(column[i]) THEN column[i]
    ELSE LET prev == {j \in 1..(i - 1) : ~IsBlank(column[j])}
         IN  IF prev = {} THEN <<>>
             ELSE column[CHOOSE j \in prev : \A k \in prev : k <= j]

PartyNames(rows) == [i \in 1..Len(rows) |-> rows[i].party_name]

Stations(rows) == [i \in 1..Len(rows) |-> rows[i].station]

AcmePharma == <<"A","C","M","E"," ","P","H","A","R","M","A">>

(***************************************************************************)
(* C1.  For every emitted record whose most recent preceding header line   *)
(* supplied a party that is not blank, the party of the record in the      *)
(* final output is that header's party, and likewise for a non-blank       *)
(* station; also when the header is on an earlier page than the data row:  *)
(* party and station are initialised once per document and never reset at  *)
(* a page boundary.                                                        *)
(***************************************************************************)
C1_HeaderValueKept ==
    pc = "done" =>
        /\ Len(df) = Len(row_hdr)
        /\ \A i \in 1..Len(row_hdr) :
              row_hdr[i].hdr.seen =>
                  /\ ~IsBlank(row_hdr[i].hdr.party)
                         => df[i].party_name = row_hdr[i].hdr.party
                  /\ ~IsBlank(row_hdr[i].hdr.station)
                         => df[i].station = row_hdr[i].hdr.station

\* A finished document with a record on a later page than its header line,
\* the header having supplied both a party and a station.
C1_Witness ==
    /\ pc = "done"
    /\ \E i \in 1..Len(row_hdr) :
          /\ row_hdr[i].hdr.seen
          /\ row_hdr[i].hdr.page < row_hdr[i].page
          /\ ~IsBlank(row_hdr[i].hdr.party)
          /\ ~IsBlank(row_hdr[i].hdr.station)
          /\ df[i].party_name = row_hdr[i].hdr.party
          /\ df[i].station = row_hdr[i].hdr.station

(***************************************************************************)
(* C2 as stated.  current_party and current_station are updated only by    *)
(* header lines: after a noise line, a rejected data line or an emitted    *)
(* data line both are what they were before the line.                      *)
(***************************************************************************)
C2_OnlyHeaderLines ==
    last.kind \in {"noise", "rejected", "emitted"} =>
        /\ current_party = last.party
        /\ current_station = last.station

(***************************************************************************)
(* C2 amended.  current_station is updated only by header lines;           *)
(* current_party is updated only by header lines and by an emitted data    *)
(* line read while current_party is empty whose corrected name contains    *)
(* " - ", which sets it to the text before the first " - ".  Noise lines,  *)
(* rejected data lines and every other emitted data line leave both        *)
(* unchanged.                                                              *)
(***************************************************************************)
C2_HeaderLinesAndFallback ==
    /\ last.kind \in {"noise", "rejected"} =>
           /\ current_party = last.party
           /\ current_station = last.station
    /\ last.kind = "emitted" =>
           LET name == facts(last.line).row.raw_product_name
           IN  /\ current_station = last.station
               /\ IF last.party = <<>> /\ contains(name, InlineSep)
                  THEN current_party =
                           SubSeq(name, 1, find(name, InlineSep, 1) - 1)
                  ELSE current_party = last.party

\* A data line read with no party has set current_party.
C2_Witness ==
    /\ last.kind = "emitted"
    /\ last.party = <<>>
    /\ current_party = word.XYZ
    /\ current_station = last.station

(***************************************************************************)
(* C3.  Forward fill, on the party column and on the station column        *)
(* independently: a record whose value is blank receives the value of the  *)
(* nearest preceding record whose value is not blank, a record with a      *)
(* non-blank value is unchanged, a leading run without a preceding         *)
(* non-blank value ends as the empty string; the other fields and the      *)
(* number of records are untouched.                                        *)
(***************************************************************************)
C3_ForwardFill ==
    pc = "done" =>
        /\ Len(df) = Len(all_rows)
        /\ \A i \in 1..Len(all_rows) :
              /\ df[i].party_name = NearestValue(PartyNames(all_rows), i)
              /\ df[i].station = NearestValue(Stations(all_rows), i)
              /\ [df[i] EXCEPT !.party_name = all_rows[i].party_name,
                               !.station = all_rows[i].station] = all_rows[i]

\* The parties "", "", P, "", BETA, "" have become "", "", P, P, BETA, BETA.
C3_Witness ==
    /\ pc = "done"
    /\ PartyNames(all_rows) =
           <<<<>>, <<>>, AcmePharma, <<>>, word.BETA, <<>>>>
    /\ PartyNames(df) =
           <<<<>>, <<>>, AcmePharma, AcmePharma, word.BETA, word.BETA>>

C5_FieldMapping ==
    (last.kind = "emitted" /\ all_rows # <<>>) =>
        LET b == TrailingBlock(last.line)
            N == Len(b)
            uncorrected == facts(last.line).row.raw_product_name
                               = TrimmedName(last.line)
        IN  /\ N >= 3
            /\ LastRow.rate = (IF N = 3 THEN b[1] ELSE b[N - 2])
            /\ LastRow.amount = b[N - 1]
            /\ LastRow.tax = b[N]
            /\ LastRow.free = (IF N >= 5 THEN <<b[N - 3] \div 100>> ELSE <<>>)
            /\ uncorrected =>
                   LastRow.qty = (IF N >= 5 THEN b[N - 4]
                                  ELSE IF N = 4 THEN b[1] ELSE 0)

\* PARA 7 10 2 50.5 505 5: six values, the first one ignored.
C5_Witness ==
    /\ last.kind = "emitted"
    /\ last.line = ln_n6
    /\ Len(TrailingBlock(last.line)) = 6
    /\ all_rows # <<>>
    /\ LastRow.qty = 1000
    /\ LastRow.free = <<2>>
    /\ LastRow.rate = 5050
    /\ LastRow.amount = 50500
    /\ LastRow.tax = 500

(***************************************************************************)
(* C6.  A visual line is noise if its trimmed joined text is shorter than  *)
(* 3 characters, contains "total" in any case, or contains "Page No",      *)
(* "VEDIKA PHARMACY" or "DESCRIPTION"; otherwise it is a data row if at    *)
(* least 3 of its words are numeric, and a header otherwise.  So a line    *)
(* with 3 numeric words that contains "total" is noise, and a line with at *)
(* most 2 numeric words that is not noise is a header.                     *)
(***************************************************************************)
C6_Classification ==
    last.kind # "start" =>
        LET text == strip(join(last.line, Space))
            noise ==
                \/ Len(text) < 3
                \/ contains(lower(text), <<"t","o","t","a","l">>)
                \/ contains(text, <<"P","a","g","e"," ","N","o">>)
                \/ contains(text, <<"V","E","D","I","K","A"," ",
                                    "P","H","A","R","M","A","C","Y">>)
                \/ contains(text, <<"D","E","S","C","R","I","P","T","I","O","N">>)
            n == Cardinality({i \in 1..Len(last.line) :
                                 is_numeric_item(last.line[i])})
        IN  /\ last.kind = "noise" <=> noise
            /\ last.kind \in {"emitted", "rejected"} <=> (~noise /\ n >= 3)
            /\ last.kind = "header" <=> (~noise /\ n <= 2)

\* Grand Total 10 2 5: three numeric words, and noise.
C6_Witness ==
    /\ last.kind = "noise"
    /\ last.line = ln_total
    /\ Cardinality({i \in 1..Len(last.line) : is_numeric_item(last.line[i])}) = 3

(***************************************************************************)
(* C7.  A header line's text is split on "-" (into the pieces that hold no *)
(* "-").  With at least 2 pieces, none of them numeric, current_station    *)
(* becomes the trimmed last piece and current_party the trimmed join with  *)
(* "-" of the pieces before it; otherwise current_party becomes the whole  *)
(* text and current_station empty.  "ACME PHARMA - PUNE" gives party       *)
(* "ACME PHARMA" and station "PUNE"; "AB-CD PHARMA" gives party "AB" and   *)
(* station "CD PHARMA".  The header line produces no record.               *)
(***************************************************************************)
C7_HeaderSplit ==
    last.kind = "header" =>
        LET text == strip(join(last.line, Space))
            parts == split(text, <<"-">>)
            n == Len(parts)
        IN  /\ join(parts, <<"-">>) = text
            /\ \A i \in 1..n : ~contains(parts[i], <<"-">>)
            /\ IF n >= 2 /\ \A i \in 1..n : ~is_numeric_item(parts[i])
               THEN /\ current_station = strip(parts[n])
                    /\ current_party = strip(join(SubSeq(parts, 1, n - 1), <<"-">>))
               ELSE /\ current_party = text
                    /\ current_station = <<>>
            /\ last.line = ln_acme =>
                   current_party = AcmePharma /\ current_station = word.PUNE
            /\ last.line = ln_abcd =>
                   /\ current_party = word.AB
                   /\ current_station = <<"C","D"," ","P","H","A","R","M","A">>
            /\ all_rows = <<>>
            /\ df = <<>>

\* AB-CD PHARMA read as a header line.
C7_Witness ==
    /\ last.kind = "header"
    /\ last.line = ln_abcd
    /\ current_party = word.AB
    /\ current_station = <<"C","D"," ","P","H","A","R","M","A">>
    /\ all_rows = <<>>

(***************************************************************************)
(* C8.  Name corrector.  When the trimmed raw name ends with whitespace,   *)
(* one or more digits and an optional hyphen, the digits become the        *)
(* quantity if and only if qty is 0, or the number is under 1000 and       *)
(* strictly less than the rate; then qty is the number and the name loses  *)
(* the suffix (and the spaces and hyphens that end what is left).  When    *)
(* the number is not taken, or there is no such suffix, qty and the name   *)
(* are unchanged.                                                          *)
(***************************************************************************)
C8_NameCorrector ==
    (last.kind = "emitted" /\ all_rows # <<>>) =>
        LET name == TrimmedName(last.line)
            qty == BlockQty(last.line)
            number == 100 * digits_value(SuffixDigits(name))
            corrected == facts(last.line).row.raw_product_name
        IN  IF /\ HasNumberSuffix(name)
               /\ (qty = 0 \/ (number < 1000 * 100 /\ number < LastRow.rate))
            THEN /\ LastRow.qty = number
                 /\ corrected = rstrip(strip(BeforeSuffix(name)), {" ", "-"})
            ELSE /\ LastRow.qty = qty
                 /\ corrected = name

\* PARA 12 -- 8.0 96 5: name "PARA 12", qty 0, rate 8.0 give qty 12, "PARA".
C8_Witness ==
    /\ last.kind = "emitted"
    /\ last.line = ln_fix_zero
    /\ TrimmedName(last.line) = <<"P","A","R","A"," ","1","2">>
    /\ BlockQty(last.line) = 0
    /\ all_rows # <<>>
    /\ LastRow.rate = 800
    /\ LastRow.qty = 1200
    /\ LastRow.product_name = word.PARA

(***************************************************************************)
(* C9 as stated.  For every word t of a line, is_numeric_item(t) is false  *)
(* if t holds a letter, and otherwise true if and only if t without its    *)
(* commas, hyphens and percent signs parses as a float and has at most 15  *)
(* characters; so "5%" is numeric.                                         *)
(***************************************************************************)
C9_PercentStripped ==
    last.kind # "start" =>
        \A i \in 1..Len(last.line) :
            LET t == last.line[i]
                rest == strip(remove_char(remove_char(remove_char(t, ","), "-"), "%"))
            IN  IF has_alpha(t) THEN ~is_numeric_item(t)
                ELSE is_numeric_item(t) <=> (float_ok(rest) /\ Len(rest) <= 15)

(***************************************************************************)
(* C10 as stated.  For a data row read while current_party is empty whose  *)
(* corrected name contains " - ", the text before the first " - " becomes  *)
(* the party, and the product name of the record is what the name          *)
(* canonicalizer (exact lookup, then lookup of the uppercased text, then   *)
(* the text unchanged) makes of the remainder.                             *)
(***************************************************************************)
C10_FallbackCanonical ==
    (last.kind = "emitted" /\ all_rows # <<>> /\ last.party = <<>>
        /\ contains(facts(last.line).row.raw_product_name, InlineSep)) =>
        LET name == facts(last.line).row.raw_product_name
            k == find(name, InlineSep, 1)
        IN  /\ LastRow.party_name = SubSeq(name, 1, k - 1)
            /\ LastRow.product_name =
                   canonical_name(SubSeq(name, k + Len(InlineSep), Len(name)))

\* The records of one file after its forward fill, from its rows alone.
Filled(file_rows) ==
    [i \in 1..Len(file_rows) |->
        [file_rows[i] EXCEPT !.party_name = NearestValue(PartyNames(file_rows), i),
                             !.station = NearestValue(Stations(file_rows), i)]]

\* The title record: the marker in the party field, every other field empty.
IsTitleRecord(r, title) ==
    /\ r.party_name = <<"C","O","M","P","A","N","Y",":"," ">> \o title
    /\ r.station = <<>>
    /\ r.product_name = <<>>
    /\ r.qty = <<>>
    /\ r.free = <<>>
    /\ r.rate = <<>>
    /\ r.amount = <<>>
    /\ r.tax = <<>>

\* The number of records that the files ds contribute when every file has a
\* title record, and when only the files with records have one.
RECURSIVE SizeWithTitles(_)
SizeWithTitles(ds) ==
    IF ds = <<>> THEN 0
    ELSE 1 + Len(Head(ds).rows) + SizeWithTitles(Tail(ds))

RECURSIVE SizeOfFilesWithRows(_)
SizeOfFilesWithRows(ds) ==
    IF ds = <<>> THEN 0
    ELSE (IF Head(ds).rows = <<>> THEN 0 ELSE 1 + Len(Head(ds).rows))
         + SizeOfFilesWithRows(Tail(ds))

\* merged, from position at on, is file k's title record and then the
\* records of Filled(docs[k].rows).
SegmentAt(merged, at, k) ==
    /\ IsTitleRecord(merged[at], docs[k].title)
    /\ \A i \in 1..Len(docs[k].rows) :
           merged[at + i] = Filled(docs[k].rows)[i]

(***************************************************************************)
(* C11 as stated.  The merged output is, for the files in input order,     *)
(* each file's title record immediately followed by that file's            *)
(* forward-filled records, each segment computed from that file alone.     *)
(***************************************************************************)
C11_TitleForEveryFile ==
    pc = "done" =>
        /\ Len(final_df) = SizeWithTitles(docs)
        /\ \A k \in 1..Len(docs) :
               SegmentAt(final_df, SizeWithTitles(SubSeq(docs, 1, k - 1)) + 1, k)

(***************************************************************************)
(* C11 amended.  The merged output is, for the files in input order that   *)
(* emitted at least one record, the file's title record immediately        *)
(* followed by that file's forward-filled records; a file without records  *)
(* contributes nothing, not even a title record.  Each segment is computed *)
(* from its file alone: the fill uses the rows of that file only and not   *)
(* the title record, and a record that no header line of its own file      *)
(* preceded has an empty station.                                          *)
(***************************************************************************)
C11_TitleForFilesWithRows ==
    pc = "done" =>
        /\ Len(final_df) = SizeOfFilesWithRows(docs)
        /\ \A k \in 1..Len(docs) :
               docs[k].rows # <<>> =>
                   LET at == SizeOfFilesWithRows(SubSeq(docs, 1, k - 1)) + 1
                   IN  /\ SegmentAt(final_df, at, k)
                       /\ \A i \in 1..Len(docs[k].rows) :
                              ~docs[k].row_hdr[i].hdr.seen
                                  => final_df[at + i].station = <<>>

\* Two files with records; the first ends with a party and a station, the
\* second starts with a record without header line, which stays without
\* party and station behind its title record.
C11_Witness ==
    /\ pc = "done"
    /\ Len(docs) = 2
    /\ docs[1].rows # <<>>
    /\ docs[2].rows # <<>>
    /\ ~IsBlank(final_df[1 + Len(docs[1].rows)].party_name)
    /\ ~IsBlank(final_df[1 + Len(docs[1].rows)].station)
    /\ IsTitleRecord(final_df[2 + Len(docs[1].rows)], docs[2].title)
    /\ ~docs[2].row_hdr[1].hdr.seen
    /\ final_df[3 + Len(docs[1].rows)].party_name = <<>>
    /\ final_df[3 + Len(docs[1].rows)].station = <<>>

\* The step that reads a visual line, and the one that reads a data row
\* with fewer than 3 values in its trailing numeric block.
LineStep == n_lines' = n_lines + 1

RejectStep == LineStep /\ last'.kind = "rejected"

(***************************************************************************)
(* C12 as stated.  A data row whose trailing numeric block has fewer than  *)
(* 3 values is rejected: it emits no record, it does not change            *)
(* current_party and current_station, and the following lines are          *)
(* processed exactly as if the line had not been there, that is, the line  *)
(* leaves nothing behind that the following lines read.                    *)
(***************************************************************************)
C12_AsIfAbsent ==
    [][/\ LineStep =>
              (last'.kind = "rejected"
                  <=> /\ last'.kind \in {"rejected", "emitted"}
                      /\ Len(TrailingBlock(last'.line)) < 3)
       /\ RejectStep =>
              UNCHANGED <<all_rows, current_party, current_station, page_num,
                          df, first_line_found, extracted_title>>]_vars

(***************************************************************************)
(* C12 amended.  A data row whose trailing numeric block has fewer than 3  *)
(* values is rejected: it emits no record and does not change              *)
(* current_party and current_station, and the following lines are          *)
(* classified and parsed as if the line had not been there; but when it is *)
(* the first non-empty line of page 1 it is taken as the document title,   *)
(* so that the line after it is not.                                       *)
(***************************************************************************)
C12_AbsentButForTitle ==
    [][/\ LineStep =>
              (last'.kind = "rejected"
                  <=> /\ last'.kind \in {"rejected", "emitted"}
                      /\ Len(TrailingBlock(last'.line)) < 3)
       /\ RejectStep =>
              /\ UNCHANGED <<all_rows, current_party, current_station,
                             page_num, df>>
              /\ IF page_num = 1 /\ ~first_line_found
                 THEN /\ first_line_found'
                      /\ extracted_title' =
                             clean_title(strip(join(last'.line, Space)))
                 ELSE UNCHANGED <<first_line_found, extracted_title>>]_vars

\* PARA 10 2 50.5 505 5%, four numeric words and none of them trailing, read
\* after a header line and a record: nothing but the ghost variables moved.
C12_Witness ==
    /\ last.kind = "rejected"
    /\ Cardinality({i \in 1..Len(last.line) : is_numeric_item(last.line[i])}) >= 3
    /\ Len(TrailingBlock(last.line)) < 3
    /\ hdr.seen
    /\ all_rows # <<>>
    /\ current_party = last.party
    /\ current_station = last.station
    /\ current_party # <<>>

\* Two words of the page are in the same visual line.
SameLine(i, j) ==
    \E y \in DOMAIN rows_by_y :
        \E a, b \in 1..Len(rows_by_y[y]) :
            rows_by_y[y][a] = words[i] /\ rows_by_y[y][b] = words[j]

(***************************************************************************)
(* C13 as stated.  With the bucket key round(top / 5) * 5, any two words   *)
(* of a page whose tops are within 5 layout units of each other are in the *)
(* same visual line.                                                       *)
(***************************************************************************)
C13_Within5SameLine ==
    \A i, j \in 1..Len(words) :
        (words[i].top - words[j].top <= 5 * 100
            /\ words[j].top - words[i].top <= 5 * 100) => SameLine(i, j)

\* The records before record i that were emitted with a station.
WithStationBefore(i) == {j \in 1..(i - 1) : ~IsBlank(all_rows[j].station)}

NearestWithStation(i) ==
    CHOOSE j \in WithStationBefore(i) : \A k \in WithStationBefore(i) : k <= j

(***************************************************************************)
(* C14.  A header line without a station part sets current_station to the *)
(* empty string, but in the forward-filled output a record emitted under   *)
(* such a header has an empty station only if no earlier record of the     *)
(* document has a non-blank station; otherwise it carries the station of   *)
(* the nearest earlier record with a non-blank station, even when that     *)
(* record was emitted under another party.                                 *)
(***************************************************************************)
C14_StationLeak ==
    /\ (last.kind = "header"
           /\ ~contains(strip(join(last.line, Space)), <<"-">>))
           => current_station = <<>>
    /\ pc = "done" =>
           \A i \in 1..Len(df) :
               (row_hdr[i].hdr.seen /\ row_hdr[i].hdr.station = <<>>) =>
                   /\ all_rows[i].station = <<>>
                   /\ df[i].station = <<>> <=> WithStationBefore(i) = {}
                   /\ WithStationBefore(i) # {} =>
                          df[i].station = all_rows[NearestWithStation(i)].station

\* A record under the header BETA, which has no station, with the station
\* of a record of another party.
C14_Witness ==
    /\ pc = "done"
    /\ \E i \in 1..Len(df) :
          /\ row_hdr[i].hdr.seen
          /\ row_hdr[i].hdr.station = <<>>
          /\ row_hdr[i].hdr.party = word.BETA
          /\ df[i].party_name = word.BETA
          /\ WithStationBefore(i) # {}
          /\ df[i].station = word.PUNE
          /\ df[NearestWithStation(i)].party_name = AcmePharma
====
